---- MODULE Spec2Model ----
(***************************************************************************)
(* Model of scrap.py: a listing page is fetched, its cards are located,    *)
(* one extract_info task per card runs on a ThreadPoolExecutor, the        *)
(* results are aggregated into a dict and persisted as a JSON dump and a   *)
(* normalised SQLite store (titles, regions, jobs).                        *)
(*                                                                         *)
(* Texts whose characters matter (titles, location) are sequences of       *)
(* one-character strings; an optional element is a sequence of length 0    *)
(* or 1; an HTML document is the sequence of its nodes, "" being <<>>.     *)
(***************************************************************************)
EXTENDS Integers, Sequences, FiniteSets, TLC

\* ---------------------------------------------------------------- bounds
MaxCards == 2
MaxWorkers == 2
MaxKeys == 2
MaxSaves == 3

\* ------------------------------------------------------ program constants
URL == "listing"
HTTP_OK == 200
NULL == 0

\* ------------------------------------------------------------------ text
RECURSIVE LStrip(_)
LStrip(s) ==
  IF s # <<>> /\ Head(s) = " " THEN LStrip(Tail(s)) ELSE s

RECURSIVE RStrip(_)
RStrip(s) ==
  IF s # <<>> /\ s[Len(s)] = " " THEN RStrip(SubSeq(s, 1, Len(s) - 1)) ELSE s

\* str.strip() and get_text(strip=True) on a single text node
Strip(s) == RStrip(LStrip(s))

RECURSIVE FindSep(_, _, _)
FindSep(s, sep, k) ==
  IF k > Len(s) THEN 0
  ELSE IF s[k] = sep THEN k
  ELSE FindSep(s, sep, k + 1)

\* s.split(sep, 1): one part when sep is absent, else prefix and suffix
Split1(s, sep) ==
  LET k == FindSep(s, sep, 1)
  IN  IF k = 0 THEN <<s>>
      ELSE <<SubSeq(s, 1, k - 1), SubSeq(s, k + 1, Len(s))>>

Digit(i) ==
  CASE i = 0 -> "0" [] i = 1 -> "1" [] i = 2 -> "2" [] i = 3 -> "3"
    [] i = 4 -> "4" [] i = 5 -> "5" [] i = 6 -> "6" [] i = 7 -> "7"
    [] i = 8 -> "8" [] OTHER -> "9"

\* f"Job {idx}"
JobTitle(idx) == <<"J", "o", "b", " ", Digit(idx)>>

\* -------------------------------------------------------------- dict
\* A Python dict is the sequence of its <<key, value>> items in insertion
\* order.
DictKeys(d) == {d[k][1] : k \in 1..Len(d)}

DictHas(d, key) == \E k \in 1..Len(d) : d[k][1] = key

DictGet(d, key) == d[CHOOSE k \in 1..Len(d) : d[k][1] = key][2]

\* d[key] = val
DictPut(d, key, val) ==
  IF DictHas(d, key)
  THEN [k \in 1..Len(d) |-> IF d[k][1] = key THEN <<key, val>> ELSE d[k]]
  ELSE Append(d, <<key, val>>)

\* d1 == d2 for dicts: same keys, same values, order ignored
DictEq(d1, d2) ==
  /\ DictKeys(d1) = DictKeys(d2)
  /\ \A key \in DictKeys(d1) : DictGet(d1, key) = DictGet(d2, key)

\* ------------------------------------------------------------------ HTML
RECURSIVE Select(_, _)
Select(html, sel) ==
  IF html = <<>> THEN <<>>
  ELSE IF Head(html).sel = sel THEN <<Head(html)>> \o Select(Tail(html), sel)
  ELSE Select(Tail(html), sel)

\* ---------------------------------------------------------------- inputs
Header == [sel |-> "header"]

\* a complete card
CardFull ==
  [sel |-> "div.card-content",
   title |-> << <<"A">> >>,
   company |-> <<"Co">>,
   location |-> << <<"V", ",", " ", "R">> >>,
   time |-> <<[datetime |-> "2023-08-11", text |-> "Aug"]>>,
   links |-> <<[href |-> "learn"], [href |-> "u1"]>>]

\* a card with none of the optional sub-structures and a single link
CardBare ==
  [sel |-> "div.card-content",
   title |-> <<>>,
   company |-> <<>>,
   location |-> <<>>,
   time |-> <<>>,
   links |-> <<[href |-> "learn"]>>]

\* a card whose location text has no comma
CardNoSep ==
  [sel |-> "div.card-content",
   title |-> << <<" ", "A">> >>,
   company |-> <<"Co">>,
   location |-> << <<"V">> >>,
   time |-> <<[datetime |-> "", text |-> "Aug"]>>,
   links |-> <<[href |-> "learn"], [href |-> "u1"]>>]

\* a card whose location text ends with the comma, and a time without
\* datetime attribute
CardNoRegion ==
  [sel |-> "div.card-content",
   title |-> << <<"B">> >>,
   company |-> <<>>,
   location |-> << <<"V", ",">> >>,
   time |-> <<[datetime |-> "", text |-> "Aug"]>>,
   links |-> <<[href |-> "learn"], [href |-> "u2"]>>]

CardPool == {CardFull, CardBare, CardNoSep, CardNoRegion}

\* the hrefs the cards carry
DetailUrls == {"learn", "u1", "u2"}

RECURSIVE SeqsUpTo(_, _)
SeqsUpTo(S, n) ==
  IF n = 0 THEN {<<>>}
  ELSE LET shorter == SeqsUpTo(S, n - 1)
       IN  shorter \cup {Append(s, x) : s \in {t \in shorter : Len(t) = n - 1}, x \in S}

\* what one GET can produce: a transport error, or a status and a body
TransportError == [err |-> TRUE, status |-> 0, text |-> <<>>]
Http(status, text) == [err |-> FALSE, status |-> status, text |-> text]

ListingResponses ==
  {TransportError, Http(404, <<Header>>), Http(HTTP_OK, <<>>)}
    \cup {Http(HTTP_OK, <<Header>> \o cs) : cs \in SeqsUpTo(CardPool, MaxCards)}

DetailWithP == <<[sel |-> "div.content p", text |-> "Prepare"]>>
DetailNoP == <<[sel |-> "footer", text |-> "x"]>>

DetailResponses ==
  {TransportError, Http(404, DetailWithP), Http(HTTP_OK, <<>>),
   Http(HTTP_OK, DetailNoP), Http(HTTP_OK, DetailWithP)}

\* ------------------------------------------------------------ fetch_html
\* requests.get raises on a transport failure; the body is returned on
\* status 200 and "" otherwise.
fetch_html(resp) ==
  IF resp.err THEN [raised |-> TRUE, text |-> <<>>]
  ELSE IF resp.status = HTTP_OK THEN [raised |-> FALSE, text |-> resp.text]
  ELSE [raised |-> FALSE, text |-> <<>>]

\* ----------------------------------------------------------- parse_cards
\* {idx: (title, card)} as the sequence of <<idx, <<title, card>>>> items
parse_cards(html) ==
  LET found == Select(html, "div.card-content")
  IN  [k \in 1..Len(found) |->
         <<k - 1,
           <<IF found[k].title # <<>> THEN Strip(found[k].title[1])
             ELSE JobTitle(k - 1),
             found[k]>> >>]

\* ---------------------------------------------------------- extract_info
\* the first footer link taken for the second
ApplyHrefFirst(links) == IF Len(links) > 0 THEN <<links[1].href>> ELSE <<>>

\* lines 159-160: the href of the second a.card-footer-item, if any
ApplyHref(links) == IF Len(links) > 1 THEN <<links[2].href>> ELSE <<>>

\* lines 156-175: the fields read from the card, before the detail fetch.
\* fault is TRUE when str_loc.split(",", 1)[1] raises IndexError.
CardFields(card) ==
  LET apply_href == ApplyHref(card.links)
      company == IF card.company # <<>> THEN card.company[1] ELSE "NC"
      str_loc == IF card.location # <<>> THEN Strip(card.location[1])
                 ELSE <<"N", "C", ",", "-", "-">>
      parts == Split1(str_loc, ",")
      date == IF card.time # <<>> /\ card.time[1].datetime # ""
              THEN card.time[1].datetime
              ELSE IF card.time # <<>> THEN card.time[1].text ELSE "NC"
  IN  [fault |-> Len(parts) < 2,
       company |-> company,
       ville |-> parts[1],
       region |-> IF Len(parts) < 2 THEN <<>> ELSE parts[2],
       date |-> date,
       url |-> IF apply_href # <<>> THEN apply_href[1] ELSE "NC"]

\* lines 176-184: content from the detail page
DetailContent(fetched) ==
  IF fetched.text # <<>>
  THEN LET p == Select(fetched.text, "div.content p")
       IN  IF p # <<>> THEN p[1].text ELSE ""
  ELSE ""

\* lines 186-193
Record(title, f, content) ==
  [title |-> title,
   company |-> f.company,
   location |-> [ville |-> f.ville, region |-> f.region],
   date |-> f.date,
   url |-> f.url,
   content |-> content]

\* ----------------------------------------------------------- save_sqlite
\* The store: two reference tables with their AUTOINCREMENT counters
\* (sqlite_sequence) and the jobs table, each table the set of its rows.
EmptyDb ==
  [titles |-> {}, titleSeq |-> 0, regions |-> {}, regionSeq |-> 0, jobs |-> {}]

MaxOf(S, floor) == IF S = {} THEN floor
                   ELSE LET m == CHOOSE x \in S : \A y \in S : y <= x
                        IN  IF m > floor THEN m ELSE floor

\* the rowid an INTEGER PRIMARY KEY AUTOINCREMENT column gives a new row
AutoId(rows, seq) == MaxOf({r.id : r \in rows}, seq) + 1

\* line 97: SELECT id FROM titles WHERE title = ?
FindTitleNone(db, title) == {}

FindTitle(db, title) == {r \in db.titles : r.title = title}

\* the row cur.fetchone() returns
FetchOne(rows) == CHOOSE r \in rows : \A q \in rows : r.id <= q.id

\* INSERT OR REPLACE in the place of lines 97-103: the row of a known title
\* is replaced by a new one
UpsertTitleReplace(db, title) ==
  LET id == AutoId(db.titles, db.titleSeq)
  IN  [id |-> id,
       db |-> [db EXCEPT !.titles = {r \in @ : r.title # title}
                                      \cup {[id |-> id, title |-> title]},
                         !.titleSeq = id]]

\* lines 96-103: the id of the title's row, inserted when there is none
UpsertTitle(db, title) ==
  LET hit == FindTitle(db, title)
      id == AutoId(db.titles, db.titleSeq)
  IN  IF hit # {} THEN [id |-> FetchOne(hit).id, db |-> db]
      ELSE [id |-> id,
            db |-> [db EXCEPT !.titles = @ \cup {[id |-> id, title |-> title]},
                              !.titleSeq = id]]

\* line 108: SELECT id FROM regions WHERE region = ?
FindRegionNone(db, region) == {}

FindRegion(db, region) == {r \in db.regions : r.region = region}

\* lines 108-114 without the test of line 107
UpsertRegionAlways(db, region) ==
  LET hit == FindRegion(db, region)
      id == AutoId(db.regions, db.regionSeq)
  IN  IF hit # {} THEN [id |-> FetchOne(hit).id, db |-> db]
      ELSE [id |-> id,
            db |-> [db EXCEPT !.regions = @ \cup {[id |-> id, region |-> region]},
                              !.regionSeq = id]]

\* lines 105-114: region_id stays None for an empty region text
UpsertRegion(db, region) ==
  LET hit == FindRegion(db, region)
      id == AutoId(db.regions, db.regionSeq)
  IN  IF region = <<>> THEN [id |-> NULL, db |-> db]
      ELSE IF hit # {} THEN [id |-> FetchOne(hit).id, db |-> db]
      ELSE [id |-> id,
            db |-> [db EXCEPT !.regions = @ \cup {[id |-> id, region |-> region]},
                              !.regionSeq = id]]

\* INSERT OR IGNORE: the row already stored under the id is kept
UpsertJobIgnore(jobs, row) ==
  IF \E r \in jobs : r.id = row.id THEN jobs ELSE jobs \cup {row}

\* the table emptied before the row is written
UpsertJobOnly(jobs, row) == {row}

\* lines 116-124: INSERT OR REPLACE INTO jobs
UpsertJob(jobs, row) == {r \in jobs : r.id # row.id} \cup {row}

\* lines 87-124: one iteration of the loop over data.items()
SaveItem(db, idx, item) ==
  LET t == UpsertTitle(db, Strip(item.title))
      g == UpsertRegion(t.db, item.location.region)
      row == [id |-> idx,
              title_id |-> t.id,
              company |-> item.company,
              ville |-> item.location.ville,
              region_id |-> g.id,
              date |-> item.date,
              url |-> item.url,
              content |-> item.content]
  IN  [g.db EXCEPT !.jobs = UpsertJob(@, row)]

\* lines 87-126: the loop in the dict's iteration order, then the commit
RECURSIVE save_sqlite(_, _)
save_sqlite(db, data) ==
  IF data = <<>> THEN db
  ELSE save_sqlite(SaveItem(db, data[1][1], data[1][2]), Tail(data))

\* json.dump writes the whole dict, its int keys as strings
save_json(data) == [k \in 1..Len(data) |-> <<Digit(data[k][1]), data[k][2]>>]

\* ------------------------------------------------------------------ state
VARIABLES
  listingResp,  \* the response the listing URL gives in this run
  web,          \* detail URL -> <<>> before its first GET, then <<response>>
  workers,      \* args.workers
  pc,           \* where main / scrape_jobs is
  exc,          \* the exception propagating out of scrape_jobs, "" if none
  cards,        \* scrape_jobs' cards dict
  task,         \* task[i + 1]: the future of extract_info for card i
  collected,    \* indices whose future as_completed has yielded
  results,      \* scrape_jobs' results dict
  data,         \* main's data: <<>> until scrape_jobs returns, then <<dict>>
  fetched,      \* URL -> number of GETs issued
  jsonFile,     \* scrap/fake-jobs.json: <<>> absent, else <<document>>
  db,           \* scrap/fake-jobs.db, committed state
  first,        \* outcome of the first of two scrape_jobs calls, else <<>>
  saves,        \* number of save_sqlite calls made on the store
  repeat        \* the last save_sqlite call had the argument of the one before

vars == <<listingResp, web, workers, pc, exc, cards, task, collected, results,
          data, fetched, jsonFile, db, first, saves, repeat>>

NoOut == [exc |-> "", val |-> <<>>]

N == Len(task)
Indices == 0..(N - 1)
St(i) == task[i + 1].st
Executing == {i \in Indices : St(i) \in {"running", "fetching"}}
CardOf(i) == DictGet(cards, i)[2]

\* a task that reads the title of the task started last, not its own
TitleOfLatest(i) ==
  DictGet(cards, MaxOf({j \in Indices : St(j) \in {"running", "fetching", "finished"}}, 0))[1]

\* lines 207-208: the title submitted with card i
TitleOf(i) == DictGet(cards, i)[1]

Finish(i, out) == [task EXCEPT ![i + 1] = [st |-> "finished", out |-> out]]

Init ==
  /\ listingResp \in ListingResponses
  /\ web = [u \in DetailUrls |-> <<>>]
  /\ workers \in 1..MaxWorkers
  /\ pc = "main"
  /\ exc = ""
  /\ cards = <<>>
  /\ task = <<>>
  /\ collected = {}
  /\ results = <<>>
  /\ data = <<>>
  /\ fetched = [u \in DetailUrls \cup {URL} |-> 0]
  /\ jsonFile = <<>>
  /\ db = EmptyDb
  /\ first = <<>>
  /\ saves = 0
  /\ repeat = FALSE

\* a GET that is issued again
GetAgain(log, url) == [log EXCEPT ![url] = @ + 2]

\* line 17: one requests.get per fetch_html call
Get(log, url) == [log EXCEPT ![url] = @ + 1]

\* line 198: if not html
ListingEmptyNever(html) == FALSE

ListingEmpty(html) == html = <<>>

\* lines 197-204: the listing fetch, the early return, parse_cards
ScrapeStart ==
  /\ pc = "main"
  /\ fetched' = Get(fetched, URL)
  /\ LET r == fetch_html(listingResp)
     IN  IF r.raised
         THEN /\ pc' = "failed"
              /\ exc' = "ConnectionError"
              /\ UNCHANGED <<cards, task, data>>
         ELSE IF ListingEmpty(r.text)
         THEN /\ pc' = "returned"
              /\ data' = << <<>> >>
              /\ UNCHANGED <<exc, cards, task>>
         ELSE /\ cards' = parse_cards(r.text)
              /\ task' = [k \in 1..Len(cards') |-> [st |-> "unsubmitted", out |-> NoOut]]
              /\ pc' = IF Len(cards') = 0 THEN "collect" ELSE "submit"
              /\ UNCHANGED <<exc, data>>
  /\ UNCHANGED <<listingResp, web, workers, collected, results, jsonFile, db,
                 first, saves, repeat>>

\* lines 206-209: executor.submit for the next item of cards.items()
Submit(i) ==
  /\ pc = "submit"
  /\ St(i) = "unsubmitted"
  /\ \A j \in Indices : j < i => St(j) # "unsubmitted"
  /\ task' = [task EXCEPT ![i + 1].st = "queued"]
  /\ pc' = IF i = N - 1 THEN "collect" ELSE "submit"
  /\ UNCHANGED <<listingResp, web, workers, exc, cards, collected, results,
                 data, fetched, jsonFile, db, first, saves, repeat>>

\* line 205: a pool thread takes the oldest queued work item; the pool has
\* at most max_workers threads
CanStartUnbounded(i) ==
  /\ St(i) = "queued"
  /\ \A j \in Indices : j < i => St(j) # "queued"

\* a pool that keeps one thread fewer than max_workers
CanStartStrict(i) ==
  /\ St(i) = "queued"
  /\ \A j \in Indices : j < i => St(j) # "queued"
  /\ Cardinality(Executing) < workers - 1

CanStart(i) ==
  /\ St(i) = "queued"
  /\ \A j \in Indices : j < i => St(j) # "queued"
  /\ Cardinality(Executing) < workers

\* lines 154-177: the fields extract_info reads, for each card of the pool
FieldsOf == [c \in CardPool |-> CardFields(c)]

TaskStart(i) ==
  /\ pc \in {"submit", "collect"}
  /\ CanStart(i)
  /\ task' = [task EXCEPT ![i + 1].st = "running"]
  /\ UNCHANGED <<listingResp, web, workers, pc, exc, cards, collected,
                 results, data, fetched, jsonFile, db, first, saves, repeat>>

\* lines 154-179: the card's fields; the GET of the detail URL is issued
TaskExtract(i) ==
  /\ pc \in {"submit", "collect"}
  /\ St(i) = "running"
  /\ LET f == FieldsOf[CardOf(i)]
     IN  IF f.fault
         THEN /\ task' = Finish(i, [exc |-> "IndexError", val |-> <<>>])
              /\ UNCHANGED fetched
         ELSE IF f.url = "NC"
         THEN /\ task' = Finish(i, [exc |-> "", val |-> <<i, Record(TitleOf(i), f, "")>>])
              /\ UNCHANGED fetched
         ELSE /\ task' = [task EXCEPT ![i + 1].st = "fetching"]
              /\ fetched' = Get(fetched, f.url)
  /\ UNCHANGED <<listingResp, web, workers, pc, exc, cards, collected,
                 results, data, jsonFile, db, first, saves, repeat>>

\* lines 179-193: the detail GET ends; the task returns or raises
TaskFetched(i) ==
  /\ pc \in {"submit", "collect"}
  /\ St(i) = "fetching"
  /\ LET f == FieldsOf[CardOf(i)]
     IN  \E resp \in (IF web[f.url] = <<>> THEN DetailResponses ELSE {web[f.url][1]}) :
           /\ web' = [web EXCEPT ![f.url] = <<resp>>]
           /\ LET r == fetch_html(resp)
              IN  task' = IF r.raised
                          THEN Finish(i, [exc |-> "ConnectionError", val |-> <<>>])
                          ELSE Finish(i, [exc |-> "",
                                          val |-> <<i, Record(TitleOf(i), f, DetailContent(r))>>])
  /\ UNCHANGED <<listingResp, workers, pc, exc, cards, collected, results,
                 data, fetched, jsonFile, db, first, saves, repeat>>

\* line 212: future.result() re-raises the exception of the task, "" when
\* the task returned
PropagateNone(out) == ""

Propagate(out) == out.exc

\* line 213: the key results gets for the (idx, data) a task returned
ResultKeyArrival(d, out) == Len(d)

ResultKey(d, out) == out.val[1]

\* line 213: results[idx] = data (a future that raised carries no value)
Gather(d, out) ==
  IF out.val = <<>> THEN d ELSE DictPut(d, ResultKey(d, out), out.val[2])

\* lines 211-213: as_completed yields a finished future
Collect(i) ==
  /\ pc = "collect"
  /\ exc = ""
  /\ i \notin collected
  /\ St(i) = "finished"
  /\ collected' = collected \cup {i}
  /\ LET out == task[i + 1].out
     IN  IF Propagate(out) # ""
         THEN /\ exc' = Propagate(out)
              /\ UNCHANGED results
         ELSE /\ results' = Gather(results, out)
              /\ UNCHANGED exc
  /\ UNCHANGED <<listingResp, web, workers, pc, cards, task, data, fetched,
                 jsonFile, db, first, saves, repeat>>

\* the loop left at the first future yielded, the pool not joined
PoolDrainedFirst == exc # "" \/ collected # {} \/ Indices = {}

\* shutdown(wait=False): the pool is not joined
PoolDrainedNoJoin == exc # "" \/ collected = Indices

\* lines 211-215: the loop ends when as_completed is exhausted or
\* future.result() raises; leaving the with block is
\* executor.shutdown(wait=True), which joins every submitted task
PoolDrained ==
  /\ exc # "" \/ collected = Indices
  /\ \A i \in Indices : St(i) = "finished"

\* lines 205, 215: the with block is left; then the return, or the exception
PoolExit ==
  /\ pc = "collect"
  /\ PoolDrained
  /\ IF exc = ""
     THEN pc' = "returned" /\ data' = <<results>>
     ELSE pc' = "failed" /\ UNCHANGED data
  /\ UNCHANGED <<listingResp, web, workers, exc, cards, task, collected,
                 results, fetched, jsonFile, db, first, saves, repeat>>

\* line 234
SaveJson ==
  /\ pc = "returned"
  /\ jsonFile' = <<save_json(data[1])>>
  /\ pc' = "json_saved"
  /\ UNCHANGED <<listingResp, web, workers, exc, cards, task, collected,
                 results, data, fetched, db, first, saves, repeat>>

\* line 235
SaveSqlite ==
  /\ pc = "json_saved"
  /\ db' = save_sqlite(db, data[1])
  /\ saves' = saves + 1
  /\ pc' = "done"
  /\ UNCHANGED <<listingResp, web, workers, exc, cards, task, collected,
                 results, data, fetched, jsonFile, first, repeat>>

Scrape ==
  \/ ScrapeStart
  \/ \E i \in Indices : Submit(i)
  \/ \E i \in Indices : TaskStart(i)
  \/ \E i \in Indices : TaskExtract(i)
  \/ \E i \in Indices : TaskFetched(i)
  \/ \E i \in Indices : Collect(i)
  \/ PoolExit

Next == Scrape \/ SaveJson \/ SaveSqlite

\* one run of main
Spec == Init /\ [][Next]_vars

\* one run of main in which a thread of scrape_jobs that can take a step is
\* not kept from it forever and every GET issued is answered
FairSpec == Spec /\ WF_vars(Scrape)

\* ------------------------------------------- scrape_jobs called twice
\* A caller runs scrape_jobs(1) and then scrape_jobs(w), w > 1, against the
\* same listing and the same detail responses; first keeps what the first
\* call gave.
InitPair == Init /\ workers = 1

CallAgain ==
  /\ pc \in {"returned", "failed"}
  /\ first = <<>>
  /\ first' = <<[exc |-> exc, data |-> data]>>
  /\ workers' \in 2..MaxWorkers
  /\ pc' = "main"
  /\ exc' = ""
  /\ cards' = <<>>
  /\ task' = <<>>
  /\ collected' = {}
  /\ results' = <<>>
  /\ data' = <<>>
  /\ fetched' = [u \in DetailUrls \cup {URL} |-> 0]
  /\ UNCHANGED <<listingResp, web, jsonFile, db, saves, repeat>>

NextPair == Scrape \/ CallAgain

SpecPair == InitPair /\ [][NextPair]_vars

\* ------------------------------------------ save_sqlite called repeatedly
\* Records save_sqlite can be given: the records extract_info makes of
\* CardFull and CardBare, and one with an empty region text and a title
\* that equals RecFull's once stripped.
RecFull == Record(<<"A">>, CardFields(CardFull), "Prepare")
RecBare == Record(JobTitle(0), CardFields(CardBare), "")
RecBlank == [Record(<<"A", " ">>, CardFields(CardNoRegion), "") EXCEPT !.company = "Co"]

RecordPool == {RecFull, RecBare, RecBlank}

\* every dict with at most MaxKeys distinct keys among 0..MaxKeys-1, in
\* every insertion order
RECURSIVE DictsUpTo(_)
DictsUpTo(n) ==
  IF n = 0 THEN {<<>>}
  ELSE LET shorter == DictsUpTo(n - 1)
       IN  shorter \cup
           {Append(d, <<key, rec>>) :
              d \in {t \in shorter : Len(t) = n - 1},
              key \in 0..(MaxKeys - 1), rec \in RecordPool}

DataPool == {d \in DictsUpTo(MaxKeys) : Cardinality(DictKeys(d)) = Len(d)}

InitStore ==
  /\ listingResp = TransportError
  /\ web = [u \in DetailUrls |-> <<>>]
  /\ workers = 1
  /\ pc = "store"
  /\ exc = ""
  /\ cards = <<>>
  /\ task = <<>>
  /\ collected = {}
  /\ results = <<>>
  /\ data = <<>>
  /\ fetched = [u \in DetailUrls \cup {URL} |-> 0]
  /\ jsonFile = <<>>
  /\ db = EmptyDb
  /\ first = <<>>
  /\ saves = 0
  /\ repeat = FALSE

\* save_sqlite(d, db_path) on the existing store
CallSaveSqlite(d) ==
  /\ pc = "store"
  /\ saves < MaxSaves
  /\ data' = <<d>>
  /\ repeat' = (data = <<d>>)
  /\ db' = save_sqlite(db, d)
  /\ saves' = saves + 1
  /\ UNCHANGED <<listingResp, web, workers, pc, exc, cards, task, collected,
                 results, fetched, jsonFile, first>>

NextStore == \E d \in DataPool : CallSaveSqlite(d)

SpecStore == InitStore /\ [][NextStore]_vars

\* ---------------------------------------- main persisting run after run
\* lines 234-235 of one run of main that got the ResultSet d: save_json
\* rewrites the dump (mode "w"), save_sqlite writes to the existing store
Persist(d) ==
  /\ pc = "store"
  /\ saves < MaxSaves
  /\ data' = <<d>>
  /\ repeat' = (data = <<d>>)
  /\ jsonFile' = <<save_json(d)>>
  /\ db' = save_sqlite(db, d)
  /\ saves' = saves + 1
  /\ UNCHANGED <<listingResp, web, workers, pc, exc, cards, task, collected,
                 results, fetched, first>>

NextRuns == \E d \in DataPool : Persist(d)

SpecRuns == InitStore /\ [][NextRuns]_vars

\* ------------------------------------------------- save_sqlite that fails
\* a close that commits what the connection has written
CloseCommits(committed, pending) == pending

\* lines 128-129: conn.close() in the finally clause, no commit having been
\* made: the rows written through the connection are discarded
Close(committed, pending) == committed

\* save_sqlite(d, db_path) raises while it processes item k of d (an error
\* of a cur.execute of lines 97-124): the items before k have been written
\* through the connection, line 126 is not reached, the exception leaves
\* the caller
CallSaveSqliteFails(d, k) ==
  /\ pc = "store"
  /\ saves < MaxSaves
  /\ data' = <<d>>
  /\ repeat' = FALSE
  /\ db' = Close(db, save_sqlite(db, SubSeq(d, 1, k - 1)))
  /\ saves' = saves + 1
  /\ exc' = "sqlite3.Error"
  /\ pc' = "failed"
  /\ UNCHANGED <<listingResp, web, workers, cards, task, collected, results,
                 fetched, jsonFile, first>>

\* the items after the failing one play no part: the failing item is taken
\* to be the last of d
NextStoreFail ==
  \/ \E d \in DataPool : CallSaveSqlite(d)
  \/ \E d \in DataPool \ {<<>>} : CallSaveSqliteFails(d, Len(d))

SpecStoreFail == InitStore /\ [][NextStoreFail]_vars

\* ================================================================ claims
ListingCards == Select(listingResp.text, "div.card-content")
ListingSucceeded == ~listingResp.err /\ listingResp.status = HTTP_OK
Failed(resp) == resp.err \/ resp.status # HTTP_OK
RunEnded == pc \in {"returned", "failed", "json_saved", "done"}
Returned == pc \in {"returned", "json_saved", "done"}
Faulted(i) == St(i) = "finished" /\ task[i + 1].out.exc # ""

\* C1: when the listing fetch and every detail fetch succeed, a run that
\* has ended has returned a ResultSet with exactly one entry per card of
\* the listing page, its keys being 0..N-1.
C1_AllCardsReturned ==
  (/\ RunEnded
   /\ ListingSucceeded
   /\ \A u \in DetailUrls : web[u] # <<>> => ~Failed(web[u][1]))
  => /\ data # <<>>
     /\ Len(data[1]) = Len(ListingCards)
     /\ DictKeys(data[1]) = 0..(Len(ListingCards) - 1)

\* C2: every entry of results is stored under the index of the task that
\* produced it, and is that task's record: the title of card i, the url of
\* card i and the content of the response to card i's detail URL.
C2_OwnIndex ==
  \A k \in 1..Len(results) :
    LET i == results[k][1]
        rec == results[k][2]
    IN  /\ i \in Indices
        /\ St(i) = "finished"
        /\ task[i + 1].out.val = <<i, rec>>
        /\ rec.title = TitleOf(i)
        /\ rec.url = CardFields(CardOf(i)).url
        /\ rec.content = IF rec.url = "NC" THEN ""
                         ELSE DetailContent(fetch_html(web[rec.url][1]))

\* two different records collected in the reverse of the submission order
C2_Witness ==
  /\ Len(results) = 2
  /\ results[1][1] = 1
  /\ results[2][1] = 0
  /\ results[1][2] # results[2][2]

\* C3: at every moment at most worker_count tasks are executing.
C3_PoolBound == Cardinality(Executing) <= workers

\* the pool is full and a task waits in the queue
C3_Witness ==
  /\ Cardinality(Executing) = workers
  /\ \E i \in Indices : St(i) = "queued"

\* C4: scrape_jobs(w), w > 1, ends as scrape_jobs(1) did on the same input:
\* it returns when that call returned, and the two ResultSets are equal as
\* mappings.
C4_SameResultAnyWorkers ==
  (first # <<>> /\ RunEnded)
  => /\ (data # <<>>) <=> (first[1].data # <<>>)
     /\ data # <<>> => DictEq(data[1], first[1].data[1])

\* both calls returned two records, in different insertion orders
C4_Witness ==
  /\ first # <<>>
  /\ pc = "returned"
  /\ workers > 1
  /\ Len(data[1]) = 2
  /\ data[1] # first[1].data[1]

\* C5: when the listing fetch returns empty, scrape_jobs has returned an
\* empty ResultSet at once: no cards, no task, no detail GET, one listing GET.
C5_EmptyListing ==
  (/\ pc # "main"
   /\ ~fetch_html(listingResp).raised
   /\ fetch_html(listingResp).text = <<>>)
  => /\ Returned
     /\ data = << <<>> >>
     /\ cards = <<>>
     /\ task = <<>>
     /\ \A u \in DetailUrls : fetched[u] = 0
     /\ fetched[URL] = 1

\* the listing answered with a non-200 status and main went on
C5_Witness ==
  /\ ~listingResp.err
  /\ listingResp.status # HTTP_OK
  /\ pc = "done"

\* C6: a failed fetch (non-200 or transport error) is never raised: a
\* failed listing fetch gives an empty ResultSet, a failed detail fetch
\* gives a Record with content "".
C6_FetchFailureAbsorbed ==
  /\ (pc # "main" /\ Failed(listingResp)) => (Returned /\ data = << <<>> >>)
  /\ \A i \in Indices :
       LET f == CardFields(CardOf(i))
       IN  (/\ St(i) = "finished"
            /\ ~f.fault
            /\ f.url # "NC"
            /\ Failed(web[f.url][1]))
           => /\ task[i + 1].out.exc = ""
              /\ task[i + 1].out.val[2].content = ""

\* C7: once a task has ended with a fault, scrape_jobs never returns a
\* ResultSet and main calls neither sink.
C7_FaultIsFatal ==
  (\E i \in Indices : Faulted(i))
  => /\ pc \in {"submit", "collect", "failed"}
     /\ data = <<>>
     /\ jsonFile = <<>>
     /\ db = EmptyDb

\* the run failed although another task's record had been collected
C7_Witness ==
  /\ pc = "failed"
  /\ \E i \in Indices : Faulted(i)
  /\ Len(results) >= 1

\* C8: a save_sqlite call with the argument of the call before it leaves
\* the store as it was, with exactly one fact row per index of the argument.
C8_SaveTwiceSameStore ==
  [][repeat' =>
       /\ db' = db
       /\ \A key \in DictKeys(data'[1]) :
            Cardinality({r \in db'.jobs : r.id = key}) = 1]_vars

\* the same two-record ResultSet was persisted twice in a row
C8_Witness ==
  /\ repeat
  /\ Len(data[1]) = 2
  /\ db.titles # {}
  /\ db.regions # {}

RowOf(key) == CHOOSE r \in db.jobs : r.id = key

\* C9: after save_sqlite(d), records of d with equal titles have fact rows
\* with equal title_id, records with equal non-empty region text have fact
\* rows with equal region_id; a reference table never holds a value twice.
C9_Dedup ==
  /\ saves > 0 =>
       \A k1, k2 \in DictKeys(data[1]) :
         LET r1 == DictGet(data[1], k1)
             r2 == DictGet(data[1], k2)
         IN  /\ r1.title = r2.title => RowOf(k1).title_id = RowOf(k2).title_id
             /\ (r1.location.region = r2.location.region /\ r1.location.region # <<>>)
                  => RowOf(k1).region_id = RowOf(k2).region_id
  /\ \A a, b \in db.titles : a.title = b.title => a = b
  /\ \A a, b \in db.regions : a.region = b.region => a = b

\* two records with the same title and the same non-empty region persisted
C9_Witness ==
  /\ saves > 0
  /\ Len(data[1]) = 2
  /\ data[1][1][2].title = data[1][2][2].title
  /\ data[1][1][2].location.region = data[1][2][2].location.region
  /\ data[1][1][2].location.region # <<>>

\* C10: a save_sqlite call keeps every reference row, gives each new row an
\* id above every id the table held, and resolves each record's title and
\* non-empty region to the one row holding that value.
C10_RefRowsStable ==
  [][/\ db.titles \subseteq db'.titles
     /\ db.regions \subseteq db'.regions
     /\ \A r \in db'.titles \ db.titles : \A q \in db.titles : r.id > q.id
     /\ \A r \in db'.regions \ db.regions : \A q \in db.regions : r.id > q.id
     /\ saves' > saves =>
          \A key \in DictKeys(data'[1]) :
            LET rec == DictGet(data'[1], key)
                row == CHOOSE r \in db'.jobs : r.id = key
            IN  /\ [id |-> row.title_id, title |-> Strip(rec.title)] \in db'.titles
                /\ rec.location.region # <<>> =>
                     [id |-> row.region_id, region |-> rec.location.region] \in db'.regions
    ]_vars

\* a later call's only record reused the title id an earlier call's record
\* had been given, the table holding another title as well
C10_Witness ==
  /\ saves >= 2
  /\ Len(data[1]) = 1
  /\ Cardinality(db.jobs) = 2
  /\ Cardinality(db.titles) = 2
  /\ \A r1, r2 \in db.jobs : r1.title_id = r2.title_id

\* the fact rows stored under an id
FactsOf(store, key) == {r \in store.jobs : r.id = key}

\* row carries the fields of rec, its title and region resolved in store
Carries(store, row, rec) ==
  /\ [id |-> row.title_id, title |-> Strip(rec.title)] \in store.titles
  /\ IF rec.location.region = <<>> THEN row.region_id = NULL
     ELSE [id |-> row.region_id, region |-> rec.location.region] \in store.regions
  /\ row.company = rec.company
  /\ row.ville = rec.location.ville
  /\ row.date = rec.date
  /\ row.url = rec.url
  /\ row.content = rec.content

\* C11: every save_sqlite call leaves at most one fact row per id; the row
\* of each key of its argument carries that record's fields, and the rows
\* of the other ids are the ones the store held before, so the row of id i
\* is that of the most recent ResultSet that contained i.
C11_LatestFact ==
  [][saves' > saves =>
       \A key \in 0..(MaxKeys - 1) :
         /\ Cardinality(FactsOf(db', key)) <= 1
         /\ IF key \in DictKeys(data'[1])
            THEN \E row \in FactsOf(db', key) :
                   Carries(db', row, DictGet(data'[1], key))
            ELSE FactsOf(db', key) = FactsOf(db, key)]_vars

\* the last call replaced the fact of one id by another record's and left
\* the fact of the other id, written by an earlier call, in place
C11_Witness ==
  /\ saves >= 3
  /\ Len(data[1]) = 1
  /\ Cardinality(db.jobs) = 2
  /\ \E row \in db.jobs :
       /\ row.id = data[1][1][1]
       /\ Carries(db, row, RecBare)
  /\ \E row \in db.jobs :
       /\ row.id # data[1][1][1]
       /\ Carries(db, row, RecFull)
  /\ Cardinality(db.titles) = 2
  /\ Cardinality(db.regions) = 2

\* the tasks that have issued the GET of their card's second link
Fetchers(u) ==
  {i \in Indices :
     /\ St(i) \in {"fetching", "finished"}
     /\ ~CardFields(CardOf(i)).fault
     /\ Len(CardOf(i).links) > 1
     /\ CardOf(i).links[2].href = u}

\* C12: a task whose card has fewer than two footer links ends with url
\* "NC" and content "" and issues no GET; the GETs issued for a detail URL
\* are exactly those of the tasks whose card has that URL as second link.
C12_DetailFetchOnlyForSecondLink ==
  /\ \A i \in Indices :
       (St(i) = "finished" /\ Len(CardOf(i).links) < 2 /\ task[i + 1].out.exc = "")
       => /\ task[i + 1].out.val[2].url = "NC"
          /\ task[i + 1].out.val[2].content = ""
  /\ \A i \in Indices : Len(CardOf(i).links) < 2 => St(i) # "fetching"
  /\ \A u \in DetailUrls : fetched[u] = Cardinality(Fetchers(u))

\* a one-link card and a two-link card both finished, one GET issued
C12_Witness ==
  /\ \E i, j \in Indices :
       /\ St(i) = "finished" /\ Len(CardOf(i).links) < 2
       /\ St(j) = "finished" /\ Len(CardOf(j).links) > 1
       /\ task[j + 1].out.exc = ""
       /\ fetched[task[j + 1].out.val[2].url] = 1
  /\ fetched["learn"] = 0

\* C13: a task whose card has no location, or a location text without a
\* comma, does not fail on the split and gives a record with region "--".
C13_NoSeparatorDegrades ==
  \A i \in Indices :
    (/\ St(i) = "finished"
     /\ \/ CardOf(i).location = <<>>
        \/ FindSep(CardOf(i).location[1], ",", 1) = 0)
    => /\ task[i + 1].out.exc # "IndexError"
       /\ task[i + 1].out.exc = "" =>
            task[i + 1].out.val[2].location.region = <<"-", "-">>

\* C14: main writes to a sink only once every task has finished, and both
\* sinks are given the final results of scrape_jobs.
C14_PersistAfterDrain ==
  /\ (jsonFile # <<>> \/ db # EmptyDb \/ pc \in {"json_saved", "done"})
       => \A i \in Indices : St(i) = "finished"
  /\ pc \in {"json_saved", "done"} => jsonFile = <<save_json(results)>>
  /\ pc = "done" => db = save_sqlite(EmptyDb, results)
  /\ pc \notin {"json_saved", "done"} => (jsonFile = <<>> /\ db = EmptyDb)

\* both sinks written with the two records of a two-card run
C14_Witness ==
  /\ pc = "done"
  /\ Len(results) = 2
  /\ Len(jsonFile[1]) = 2
  /\ Cardinality(db.jobs) = 2

\* C15: when the failure of a run surfaces, every submitted task has run to
\* its end, its detail GET answered.
C15_NoCancel ==
  (pc = "failed" /\ task # <<>>)
  => \A i \in Indices :
       /\ St(i) = "finished"
       /\ LET f == CardFields(CardOf(i))
          IN  (~f.fault /\ f.url # "NC")
              => /\ web[f.url] # <<>>
                 /\ fetched[f.url] >= 1
                 /\ task[i + 1].out.exc = "" =>
                      task[i + 1].out.val =
                        <<i, Record(TitleOf(i), f, DetailContent(fetch_html(web[f.url][1])))>>

\* the fault of one task was raised at the first future yielded, and the
\* other task has fetched its detail page and returned
C15_Witness ==
  /\ pc = "failed"
  /\ \E i, j \in Indices :
       /\ Faulted(i)
       /\ collected = {i}
       /\ St(j) = "finished"
       /\ task[j + 1].out.exc = ""
       /\ task[j + 1].out.val[2].url # "NC"

\* C16: a save_sqlite call that fails while it processes a record leaves
\* the store as it was before the call.
C16_FailedSaveLeavesStore ==
  [][(pc = "store" /\ pc' = "failed") => db' = db]_vars

\* the call failed on the second of two records, the first one having a
\* title the store does not hold
C16_Witness ==
  /\ pc = "failed"
  /\ exc = "sqlite3.Error"
  /\ Len(data[1]) = 2
  /\ db.jobs # {}
  /\ \A r \in db.titles : r.title # Strip(data[1][1][2].title)
  /\ \A r \in db.jobs : r.id # data[1][1][1]

\* C17: the listing URL is fetched once, before any task exists; a detail
\* URL is fetched at most once per card carrying it, whatever the answer;
\* a run issues at most 1 + N GETs.
C17_NoRetry ==
  /\ fetched[URL] = IF pc = "main" THEN 0 ELSE 1
  /\ task # <<>> => fetched[URL] = 1
  /\ \A u \in DetailUrls :
       fetched[u] <= Cardinality({i \in Indices : CardFields(CardOf(i)).url = u})
  /\ fetched[URL] + fetched["learn"] + fetched["u1"] + fetched["u2"]
       <= 1 + Len(ListingCards)

\* a run has ended whose only GET of a detail URL got a non-200 answer
C17_Witness ==
  /\ pc = "done"
  /\ \E u \in DetailUrls :
       /\ web[u] # <<>>
       /\ ~web[u][1].err
       /\ web[u][1].status # HTTP_OK
       /\ fetched[u] = 1

C19_Terminates ==
  <>(RunEnded /\ \A i \in Indices : St(i) = "finished")

\* a run with more cards than workers has returned
C19_Witness ==
  /\ pc = "returned"
  /\ N > workers
  /\ \A i \in Indices : St(i) = "finished"

\* the ids of the fact rows of a store
FactIds(store) == {r.id : r \in store.jobs}

\* the keys of a dump
DumpKeys(dump) == {dump[k][1] : k \in 1..Len(dump)}

\* C20: a successful save_sqlite(d) deletes no fact row: the fact ids after
\* it are the ids before it and the keys of d, so that over a sequence of
\* calls they are the union of the key sets, and a row whose id is not a key
\* of d is left as it was; the dump save_json(d) leaves has the keys of d
\* and no other.
C20_FactsKept ==
  [][saves' > saves =>
       LET d == data'[1]
       IN  /\ FactIds(db') = FactIds(db) \cup DictKeys(d)
           /\ \A r \in db.jobs : r.id \notin DictKeys(d) => r \in db'.jobs
           /\ Len(jsonFile'[1]) = Len(d)
           /\ DumpKeys(jsonFile'[1]) = {Digit(key) : key \in DictKeys(d)}]_vars

\* after a smaller ResultSet was persisted the store holds a fact the
\* ResultSet and the dump do not have
C20_Witness ==
  /\ saves > 1
  /\ jsonFile # <<>>
  /\ \E r \in db.jobs :
       /\ r.id \notin DictKeys(data[1])
       /\ Digit(r.id) \notin DumpKeys(jsonFile[1])

====
